---- MODULE Spec2Model ----
(***************************************************************************)
(* Model of the crawl controller and the domain filter of                  *)
(* simple-web-scraper (src/src/main.rs).                                   *)
(*                                                                         *)
(* A URL string is modelled by its textual components, the record          *)
(* [s |-> scheme text, h |-> host text, p |-> path text]:                  *)
(*   s # "" /\ h # ""   the absolute text   s://h p                        *)
(*   s = "" /\ h # ""   the protocol-relative text   //h p                 *)
(*   s = "" /\ h = ""   the relative reference   p                         *)
(* A parsed url::Url is the record [scheme, kind, host, path].             *)
(***************************************************************************)
EXTENDS Integers, Sequences, FiniteSets, TLC

\* ------------------------------------------------------------------ bounds
MaxDepthBound == 2
MaxPagesBound == 2
MaxLinks == 2
MaxFragments == 3
MaxElems == 3
MaxSelectors == 2
MaxRows == 2
MaxUrls == 2

\* ------------------------------------------------------- strings and URLs
Txt(s, h, p) == [s |-> s, h |-> h, p |-> p]

\* Option<String>::None
None == Txt("none", "", "")

\* Err(_) of Url::parse / Url::join
ParseErr == [scheme |-> "", kind |-> "err", host |-> "", path |-> ""]

\* str::to_lowercase / the url crate's lowercasing of scheme and host
Lower(x) ==
  CASE x = "HTTPS" -> "https"
    [] x = "Example.COM" -> "example.com"
    [] x = "Other.COM" -> "other.com"
    [] OTHER -> x

\* host texts the url crate cannot parse (forbidden host code point)
BadHosts == {"bad host"}

\* host texts that parse to an IP address: Url::domain() is None for them
IpHosts == {"10.0.0.1"}

\* schemes whose URLs have no authority: the text is  s:p
OpaqueSchemes == {"mailto", "javascript"}

\* Url::parse(text): needs a scheme and, unless the scheme is opaque, a valid
\* host; lowercases scheme and host; an empty path of a special scheme
\* becomes "/"
UrlParse(t) ==
  IF t.s \in OpaqueSchemes /\ t.h = ""
    THEN [scheme |-> t.s, kind |-> "none", host |-> "", path |-> t.p]
  ELSE IF t.s = "" \/ t.h = "" \/ t.h \in BadHosts THEN ParseErr
  ELSE [scheme |-> Lower(t.s),
        kind |-> IF t.h \in IpHosts THEN "ip" ELSE "domain",
        host |-> Lower(t.h),
        path |-> IF t.p = "" THEN "/" ELSE t.p]

\* the directory part of a path, for resolving a path without leading slash
MergePath(basePath, ref) ==
  IF ref = "" THEN basePath
  ELSE IF ref = "about" THEN "/about"  \* base paths here have one segment
  ELSE ref

\* Url::join(base, text): RFC 3986 reference resolution
UrlJoin(base, t) ==
  IF t = None THEN ParseErr
  ELSE IF t.s # "" THEN UrlParse(t)
  ELSE IF t.h # "" THEN UrlParse(Txt(base.scheme, t.h, t.p))
  ELSE [base EXCEPT !.path = MergePath(base.path, t.p)]

\* Url::to_string: the canonical serialisation
UrlToString(u) == Txt(u.scheme, u.host, u.path)

\* Option<&str>::None of Url::domain()
NoDomain == "<none>"

\* Url::domain(): Some(host) when the host is a domain name, else None
UrlDomain(u) == IF u.kind = "domain" THEN u.host ELSE NoDomain

\* text.starts_with("http://") || text.starts_with("https://")  (case-sensitive)
StartsWithHttp(t) == t.s \in {"http", "https"} /\ t.h # ""

\* text.starts_with("//")
StartsWithSlashSlash(t) == t.s = "" /\ t.h # ""

normalize_url(base_url, relative_url) ==
  IF StartsWithHttp(relative_url) THEN relative_url
  ELSE IF StartsWithSlashSlash(relative_url)
    THEN Txt("https", relative_url.h, relative_url.p)
  ELSE LET j == UrlJoin(base_url, relative_url)
       IN IF j = ParseErr THEN None ELSE UrlToString(j)

\* parse_domain_list: lowercased, non-empty entries as a set
parse_domain_list(items) == {Lower(d) : d \in items \ {""}}

\* -------------------------------------------------------- the domain filter
\* lines 629-636: absolute parse first, else resolve against the base URL
ResolveLink(link_url, base_url) ==
  IF UrlParse(link_url) # ParseErr THEN UrlParse(link_url)
  ELSE UrlJoin(base_url, link_url)

\* mutant: the visited check is lost
AlreadyVisited_never(url_str, visited_set) == FALSE

\* lines 641 and 824: visited.contains(url)
AlreadyVisited(url_str, visited_set) == url_str \in visited_set

\* mutant: the block list is not consulted
BlockRejects_off(link_domain, block_domains) == FALSE

\* line 656
BlockRejects(link_domain, block_domains) ==
  block_domains # {} /\ link_domain \in block_domains

\* mutant: the base domain is not implicitly allowed
AllowAccepts_listOnly(link_domain, base_domain, allow_domains) ==
  link_domain \in allow_domains

\* line 664
AllowAccepts(link_domain, base_domain, allow_domains) ==
  link_domain = base_domain \/ link_domain \in allow_domains

\* mutant: the flag is ignored
CrossDomainAccepts_off(cross_domain) == FALSE

\* line 674
CrossDomainAccepts(cross_domain) == cross_domain

\* the registrable parent of a subdomain
ParentDomain(d) == IF d = "sub.example.com" THEN "example.com" ELSE d

\* mutant: a subdomain counts as the same domain
SameDomain_orSub(link_domain, base_domain) ==
  link_domain = base_domain \/ ParentDomain(link_domain) = base_domain

\* mutant: the comparison with the base domain is lost
SameDomain_always(link_domain, base_domain) == TRUE

\* line 680
SameDomain(link_domain, base_domain) == link_domain = base_domain

should_add_to_crawl_queue(link_url, base_url, base_domain, visited_set, allow_domains, block_domains, cross_domain) ==
  LET parsed_url == ResolveLink(link_url, base_url)
      url_str == UrlToString(parsed_url)
      link_domain == Lower(UrlDomain(parsed_url))
  IN IF parsed_url = ParseErr THEN None
     ELSE IF AlreadyVisited(url_str, visited_set) THEN None
     ELSE IF UrlDomain(parsed_url) = NoDomain THEN None
     ELSE IF BlockRejects(link_domain, block_domains) THEN None
     ELSE IF allow_domains # {}
       THEN (IF AllowAccepts(link_domain, base_domain, allow_domains)
               THEN url_str ELSE None)
     ELSE IF CrossDomainAccepts(cross_domain) THEN url_str
     ELSE IF SameDomain(link_domain, base_domain) THEN url_str
     ELSE None

\* ------------------------------------------------- the inputs of the model
\* seeds a user can pass on the command line
Seeds == {Txt("https", "example.com", ""),      \* https://example.com
          Txt("https", "example.com", "/"),     \* https://example.com/
          Txt("http", "10.0.0.1", "/"),         \* no domain
          Txt("", "", "/about")}                \* not an absolute URL

\* link texts handed to the domain filter
Hrefs == {Txt("", "", "/about"),                    \* /about
          Txt("", "", "about"),                     \* about
          Txt("", "", "/"),                         \* /
          Txt("https", "example.com", ""),          \* https://example.com
          Txt("HTTPS", "Example.COM", "/about"),    \* HTTPS://Example.COM/about
          Txt("https", "other.com", "/x"),          \* https://other.com/x
          Txt("", "sub.example.com", "/"),          \* //sub.example.com/
          Txt("https", "sub.example.com", "/x"),    \* https://sub.example.com/x
          Txt("http", "10.0.0.1", "/"),             \* http://10.0.0.1/
          Txt("https", "bad host", "/x"),           \* https://bad host/x
          Txt("mailto", "", "user@example.com")}    \* mailto:user@example.com

\* href attribute values found on the pages of a crawl
PageHrefs == {Txt("", "", "/about"),
              Txt("https", "example.com", ""),
              Txt("HTTPS", "Example.COM", "/about"),
              Txt("https", "other.com", "/x"),
              Txt("http", "10.0.0.1", "/"),
              Txt("https", "bad host", "/x")}

\* --allow-domains / --block-domains / --cross-domain combinations
FilterArgs ==
  {[allow |-> a, block |-> b, cross |-> c] :
     a \in {{}, {"Other.COM"}, {"sub.example.com"}},
     b \in {{}, {"other.com"}, {"example.com", "sub.example.com"}},
     c \in BOOLEAN}

\* the combinations a crawl is run with
CrawlFilterArgs ==
  {[allow |-> {}, block |-> {}, cross |-> FALSE],
   [allow |-> {}, block |-> {}, cross |-> TRUE],
   [allow |-> {"Other.COM"}, block |-> {}, cross |-> FALSE],
   [allow |-> {}, block |-> {"other.com"}, cross |-> TRUE],
   [allow |-> {"Other.COM"}, block |-> {"example.com"}, cross |-> FALSE],
   [allow |-> {}, block |-> {"other.com"}, cross |-> FALSE]}

RECURSIVE SeqsUpTo(_, _)
SeqsUpTo(S, n) ==
  IF n = 0 THEN {<<>>}
  ELSE LET shorter == SeqsUpTo(S, n - 1)
       IN shorter \cup {Append(q, x) : q \in shorter, x \in S}

\* what the HTTP collaborator can answer for one request
Responses ==
  {[transport |-> "timeout", status |-> 0, antibot |-> FALSE, hrefs |-> <<>>]}
  \cup {[transport |-> t, status |-> st, antibot |-> ab, hrefs |-> <<>>] :
          t \in {"ok", "body"}, st \in {200, 404, 429}, ab \in BOOLEAN}
  \cup {[transport |-> "ok", status |-> 200, antibot |-> FALSE, hrefs |-> h] :
          h \in SeqsUpTo(PageHrefs, MaxLinks)}

\* ------------------------------------------------------------ per-page fetch
\* the largest u16, the type of status_code
MaxU16 == 65535

\* mutant: the 502 arm was copied from the 500 arm and kept its code
ArmCode_copyPaste(status_code) ==
  CASE status_code = 400 -> 400
    [] status_code = 401 -> 401
    [] status_code = 403 -> 403
    [] status_code = 404 -> 404
    [] status_code = 500 -> 500
    [] status_code = 502 -> 500
    [] status_code = 503 -> 503
    [] status_code = 504 -> 504
    [] OTHER -> status_code

\* lines 257-295: the code each HttpStatus arm carries
ArmCode(status_code) ==
  CASE status_code = 400 -> 400
    [] status_code = 401 -> 401
    [] status_code = 403 -> 403
    [] status_code = 404 -> 404
    [] status_code = 500 -> 500
    [] status_code = 502 -> 502
    [] status_code = 503 -> 503
    [] status_code = 504 -> 504
    [] OTHER -> status_code

\* lines 257-295: the head of each arm's message
ArmMessage(status_code) ==
  CASE status_code = 400 -> "Bad Request"
    [] status_code = 401 -> "Unauthorized"
    [] status_code = 403 -> "Forbidden"
    [] status_code = 404 -> "Not Found"
    [] status_code = 429 -> "Too many requests"
    [] status_code = 500 -> "Internal Server Error"
    [] status_code = 502 -> "Bad Gateway"
    [] status_code = 503 -> "Service Unavailable"
    [] status_code = 504 -> "Gateway Timeout"
    [] OTHER -> "HTTP error"

\* classify_http_status: Ok(()) for 2xx, RateLimited for 429, else HttpStatus
classify_http_status(status_code) ==
  IF status_code >= 200 /\ status_code <= 299
    THEN [kind |-> "Ok", code |-> status_code, msg |-> ""]
  ELSE IF status_code = 429
    THEN [kind |-> "RateLimited", code |-> status_code, msg |-> ArmMessage(status_code)]
  ELSE [kind |-> "HttpStatus", code |-> ArmCode(status_code),
        msg |-> ArmMessage(status_code)]

\* extract_links: every href normalised against the page URL, failures dropped
RECURSIVE extract_links(_, _)
extract_links(hrefs, base_url) ==
  IF hrefs = <<>> THEN <<>>
  ELSE LET u == normalize_url(base_url, Head(hrefs))
           rest == extract_links(Tail(hrefs), base_url)
       IN IF u = None THEN rest ELSE <<u>> \o rest

\* mutant: the anti-bot detector runs on the response before the status is
\* classified
scrape_website_antiBotFirst(url, a, depth, resp) ==
  IF resp.transport = "timeout" THEN [ok |-> FALSE, err |-> "Timeout"]
  ELSE IF resp.transport = "body" THEN [ok |-> FALSE, err |-> "NetworkError"]
  ELSE IF resp.antibot THEN [ok |-> FALSE, err |-> "AntiBotDetected"]
  ELSE IF classify_http_status(resp.status).kind # "Ok"
    THEN [ok |-> FALSE, err |-> classify_http_status(resp.status).kind]
  ELSE IF ~a.selector_ok THEN [ok |-> FALSE, err |-> "InvalidSelector"]
  ELSE [ok |-> TRUE,
        data |-> [url |-> url, status_code |-> resp.status, depth |-> depth,
                  links |-> extract_links(resp.hrefs, UrlParse(url))]]

\* scrape_website: the Result of one fetch, given the collaborator's answer
scrape_website(url, a, depth, resp) ==
  IF resp.transport = "timeout" THEN [ok |-> FALSE, err |-> "Timeout"]
  ELSE IF classify_http_status(resp.status).kind # "Ok"
    THEN [ok |-> FALSE, err |-> classify_http_status(resp.status).kind]
  ELSE IF resp.transport = "body" THEN [ok |-> FALSE, err |-> "NetworkError"]
  ELSE IF resp.antibot THEN [ok |-> FALSE, err |-> "AntiBotDetected"]
  ELSE IF ~a.selector_ok THEN [ok |-> FALSE, err |-> "InvalidSelector"]
  ELSE [ok |-> TRUE,
        data |-> [url |-> url, status_code |-> resp.status, depth |-> depth,
                  links |-> extract_links(resp.hrefs, UrlParse(url))]]

\* ------------------------------------------------------------------- state
VARIABLES
  pc,        \* position of the run: start, loop, fetching, delay, done, aborted
  args,      \* the parsed command line (immutable for the run)
  queue,     \* VecDeque<(String, usize)>
  visited,   \* HashSet<String>
  results,   \* Vec<ScrapedData> (url, status_code, depth)
  cur,       \* the (url, depth) popped by the current iteration
  outcome,   \* Result of the current iteration's scrape_website
  fetched,   \* history: the URLs handed to scrape_website, in order
  page,      \* the href attributes of the document of the current iteration
  link,      \* domain filter under test: the candidate link
  decision,  \* domain filter under test: what it returned
  input,     \* function under test: its arguments
  output     \* function under test: what it returned

vars == <<pc, args, queue, visited, results, cur, outcome, fetched, page, link, decision, input, output>>

NoEntry == <<None, 0>>

\* crawl_website lines 785-788
base_url == UrlParse(args.start_url)

base_domain == UrlDomain(base_url)

\* mutant: off by one
PageCapReached_gt(res, a) == Len(res) > a.max_pages

\* line 824
PageCapReached(res, a) == Len(res) >= a.max_pages

\* line 828
TooDeep(depth, a) == depth > a.max_depth

\* mutant: off by one
MayFollowLinks_le(depth, a) == depth <= a.max_depth

\* line 839
MayFollowLinks(depth, a) == depth < a.max_depth

\* mutant: the insert is forgotten
MarkVisited_noop(visited_set, url) == visited_set

\* line 833
MarkVisited(visited_set, url) == visited_set \cup {url}

\* mutant: push_front instead of push_back
PushBack_front(q, entry) == <<entry>> \o q

\* line 850: queue.push_back
PushBack(q, entry) == Append(q, entry)

\* mutant: front() instead of pop_front(), the entry stays in the queue
PopFront_peek(q) == q

\* line 823: the queue after pop_front
PopFront(q) == Tail(q)

\* lines 840-852: the accepted links, appended at depth + 1
RECURSIVE EnqueueLinks(_, _, _)
EnqueueLinks(q, links, depth) ==
  IF links = <<>> THEN q
  ELSE LET link_str == should_add_to_crawl_queue(
                         Head(links), base_url, base_domain, visited,
                         args.allow_domains, args.block_domains, args.cross_domain)
       IN EnqueueLinks(IF link_str = None THEN q ELSE PushBack(q, <<link_str, depth + 1>>),
                       Tail(links), depth)

Init ==
  /\ pc = "start"
  /\ args \in {[start_url |-> s, max_depth |-> d, max_pages |-> p,
                allow_domains |-> parse_domain_list(f.allow),
                block_domains |-> parse_domain_list(f.block),
                cross_domain |-> f.cross, selector_ok |-> so] :
                 s \in Seeds, d \in 0..MaxDepthBound, p \in 0..MaxPagesBound,
                 f \in CrawlFilterArgs, so \in BOOLEAN}
  /\ queue = <<>>
  /\ visited = {}
  /\ results = <<>>
  /\ cur = NoEntry
  /\ outcome = "none"
  /\ fetched = <<>>
  /\ page = <<>>
  /\ link = None
  /\ decision = None
  /\ input = None
  /\ output = None

\* mutant: the seed is enqueued without validation
Start_unchecked ==
  /\ pc = "start"
  /\ pc' = "loop"
  /\ queue' = <<<<args.start_url, 0>>>>
  /\ UNCHANGED <<args, page, visited, results, cur, outcome, fetched, link, decision, input, output>>

\* main lines 729-734 and crawl_website lines 784-805
Start ==
  /\ pc = "start"
  /\ IF base_url = ParseErr \/ base_domain = NoDomain
       THEN pc' = "aborted" /\ queue' = queue /\ outcome' = "InvalidUrl"
       ELSE pc' = "loop" /\ queue' = <<<<args.start_url, 0>>>> /\ outcome' = outcome
  /\ UNCHANGED <<args, page, visited, results, cur, fetched, link, decision, input, output>>

\* lines 823-834: pop the front entry, skip it or mark it visited
Dequeue ==
  /\ pc = "loop"
  /\ queue # <<>>
  /\ LET url == Head(queue)[1]
         depth == Head(queue)[2]
     IN /\ queue' = PopFront(queue)
        /\ IF AlreadyVisited(url, visited) \/ PageCapReached(results, args)
                \/ TooDeep(depth, args)
             THEN UNCHANGED <<pc, visited, cur, fetched>>
             ELSE /\ visited' = MarkVisited(visited, url)
                  /\ cur' = Head(queue)
                  /\ fetched' = Append(fetched, url)
                  /\ pc' = "fetching"
  /\ UNCHANGED <<args, page, results, outcome, link, decision, input, output>>

\* lines 836-856: scrape_website returned Ok(data)
FetchOk ==
  /\ pc = "fetching"
  /\ \E resp \in Responses :
       LET r == scrape_website(cur[1], args, cur[2], resp)
       IN /\ r.ok
          /\ queue' = IF MayFollowLinks(cur[2], args)
                        THEN EnqueueLinks(queue, r.data.links, cur[2])
                        ELSE queue
          /\ results' = Append(results, [url |-> r.data.url,
                                         status_code |-> r.data.status_code,
                                         depth |-> r.data.depth])
          /\ outcome' = "Ok"
          /\ page' = resp.hrefs
  /\ pc' = "delay"
  /\ UNCHANGED <<args, visited, cur, fetched, link, decision, input, output>>

\* mutant: an error of one page ends the run
FetchErr_abort ==
  /\ pc = "fetching"
  /\ \E resp \in Responses :
       LET r == scrape_website(cur[1], args, cur[2], resp)
       IN /\ ~r.ok
          /\ outcome' = r.err
  /\ pc' = "aborted"
  /\ queue' = <<>>
  /\ UNCHANGED <<args, page, visited, results, cur, fetched, link, decision, input, output>>

\* mutant: the Err arm continues the loop without the sleep
FetchErr_noDelay ==
  /\ pc = "fetching"
  /\ \E resp \in Responses :
       LET r == scrape_website(cur[1], args, cur[2], resp)
       IN /\ ~r.ok
          /\ outcome' = "none"
  /\ pc' = "loop"
  /\ cur' = NoEntry
  /\ UNCHANGED <<args, page, queue, visited, results, fetched, link, decision, input, output>>

\* lines 857-859: scrape_website returned Err(e), which is logged
FetchErr ==
  /\ pc = "fetching"
  /\ \E resp \in Responses :
       LET r == scrape_website(cur[1], args, cur[2], resp)
       IN /\ ~r.ok
          /\ outcome' = r.err
  /\ pc' = "delay"
  /\ UNCHANGED <<args, page, queue, visited, results, cur, fetched, link, decision, input, output>>

\* line 863: the rate-limiting sleep ends the iteration
Delay ==
  /\ pc = "delay"
  /\ pc' = "loop"
  /\ cur' = NoEntry
  /\ outcome' = "none"
  /\ page' = <<>>
  /\ UNCHANGED <<args, queue, visited, results, fetched, link, decision, input, output>>

\* lines 823 and 866: the queue is empty, Ok(results) is returned
Finish ==
  /\ pc = "loop"
  /\ queue = <<>>
  /\ pc' = "done"
  /\ UNCHANGED <<args, page, queue, visited, results, cur, outcome, fetched, link, decision, input, output>>

Next == Start \/ Dequeue \/ FetchOk \/ FetchErr \/ Delay \/ Finish

Spec == Init /\ [][Next]_vars

\* the single task of crawl_website always takes its next step: every fetch
\* and every sleep completes
FairSpec == Init /\ [][Next]_vars /\ WF_vars(Next)

\* -------------------------------------- the domain filter on its own inputs
Pending == Txt("pending", "", "")

\* URL strings a visited set can hold
VisitedUniverse == {Txt("https", "example.com", "/about"),
                    Txt("https", "other.com", "/x"),
                    Txt("https", "sub.example.com", "/")}

FilterInit ==
  /\ pc = "filter"
  /\ args \in {[start_url |-> s, max_depth |-> 0, max_pages |-> 0,
                allow_domains |-> parse_domain_list(f.allow),
                block_domains |-> parse_domain_list(f.block),
                cross_domain |-> f.cross, selector_ok |-> TRUE] :
                 s \in {t \in Seeds : UrlDomain(UrlParse(t)) # NoDomain},
                 f \in FilterArgs}
  /\ visited \in SUBSET VisitedUniverse
  /\ link \in Hrefs
  /\ decision = Pending
  /\ page = <<>>
  /\ input = None
  /\ output = None
  /\ queue = <<>>
  /\ results = <<>>
  /\ cur = NoEntry
  /\ outcome = "none"
  /\ fetched = <<>>

\* one call of should_add_to_crawl_queue, as at lines 841-849
ApplyFilter ==
  /\ pc = "filter"
  /\ decision' = should_add_to_crawl_queue(
                   link, base_url, base_domain, visited,
                   args.allow_domains, args.block_domains, args.cross_domain)
  /\ pc' = "filtered"
  /\ UNCHANGED <<args, page, queue, visited, results, cur, outcome, fetched, link, input, output>>

FilterNext == ApplyFilter

FilterSpec == FilterInit /\ [][FilterNext]_vars

\* what the claims say about a link: its resolved URL, its domain, its status
Resolved == ResolveLink(link, base_url)

LinkDomain == Lower(UrlDomain(Resolved))

Unvisited == Resolved = ParseErr \/ UrlToString(Resolved) \notin visited

Accepted == decision # None

\* ------------------------------------------------------------------ claims

\* C1: in crawl mode the number of PageResults never exceeds max_pages, and
\* with max_pages = 0 there is no result and no fetch.
C1_PageCap ==
  /\ Len(results) <= args.max_pages
  /\ args.max_pages = 0 => results = <<>> /\ fetched = <<>>

\* the cap is reached after a failed fetch, with entries still in the frontier
C1_Witness ==
  /\ pc = "loop"
  /\ args.max_pages > 0
  /\ Len(results) = args.max_pages
  /\ Len(fetched) > Len(results)
  /\ queue # <<>>

\* C2: every frontier entry, the entry being fetched and every PageResult
\* has a depth of at most max_depth.
C2_DepthBound ==
  /\ \A i \in 1..Len(queue) : queue[i][2] <= args.max_depth
  /\ \A i \in 1..Len(results) : results[i].depth <= args.max_depth
  /\ cur[2] <= args.max_depth

\* a page at depth max_depth >= 1 was fetched successfully
C2_Witness ==
  /\ pc = "delay"
  /\ outcome = "Ok"
  /\ args.max_depth >= 1
  /\ cur[2] = args.max_depth

\* C3: no two PageResults of a crawl run have the same url, and no two
\* PageResults of enqueued links (depth >= 1) have the same resolved URL.
C3_NoDuplicateResults ==
  \A i, j \in 1..Len(results) :
    i # j =>
      /\ results[i].url # results[j].url
      /\ (results[i].depth >= 1 /\ results[j].depth >= 1)
           => UrlToString(UrlParse(results[i].url)) # UrlToString(UrlParse(results[j].url))

\* a URL that already has a PageResult is still pending in the frontier
C3_Witness ==
  \E i \in 1..Len(results) : \E k \in 1..Len(queue) : queue[k][1] = results[i].url

\* C4: a link whose domain is in the block list is rejected, whatever the
\* allow list and the cross-domain flag are.
C4_BlockWins ==
  (pc = "filtered" /\ LinkDomain \in args.block_domains) => ~Accepted

\* an unvisited link of a domain in both lists, cross-domain on, is rejected
C4_Witness ==
  /\ pc = "filtered"
  /\ LinkDomain \in args.block_domains
  /\ LinkDomain \in args.allow_domains
  /\ args.cross_domain
  /\ Unvisited
  /\ ~Accepted

\* C5: with a non-empty allow list an unvisited, non-blocked link is accepted
\* iff its domain is the base domain or in the allow list; the result is the
\* canonical URL and is the same with the cross-domain flag flipped.
C5_AllowList ==
  (pc = "filtered" /\ args.allow_domains # {} /\ Unvisited
     /\ LinkDomain \notin args.block_domains)
  => /\ Accepted <=> (LinkDomain = base_domain \/ LinkDomain \in args.allow_domains)
     /\ Accepted => decision = UrlToString(Resolved)
     /\ decision = should_add_to_crawl_queue(
                     link, base_url, base_domain, visited,
                     args.allow_domains, args.block_domains, ~args.cross_domain)

\* a base-domain link is accepted although the allow list does not name it
C5_Witness ==
  /\ pc = "filtered"
  /\ args.allow_domains # {}
  /\ base_domain \notin args.allow_domains
  /\ LinkDomain = base_domain
  /\ Accepted

\* C6: with an empty allow list and cross-domain off an unvisited, non-blocked
\* link is accepted iff its domain equals the base domain; a subdomain is not.
C6_SameDomainOnly ==
  (pc = "filtered" /\ args.allow_domains = {} /\ ~args.cross_domain /\ Unvisited
     /\ LinkDomain \notin args.block_domains)
  => (Accepted <=> LinkDomain = base_domain)

\* an unvisited, non-blocked subdomain link is rejected
C6_Witness ==
  /\ pc = "filtered"
  /\ args.allow_domains = {}
  /\ ~args.cross_domain
  /\ Unvisited
  /\ LinkDomain \notin args.block_domains
  /\ LinkDomain # base_domain
  /\ ParentDomain(LinkDomain) = base_domain
  /\ ~Accepted

\* the link text is itself a valid absolute URL with a domain
ValidAbsoluteWithDomain ==
  UrlParse(link) # ParseErr /\ UrlDomain(UrlParse(link)) # NoDomain

\* C7 as stated: with cross-domain on and empty lists every valid absolute
\* URL with a domain is accepted.
C7_Original ==
  (pc = "filtered" /\ args.cross_domain /\ args.allow_domains = {}
     /\ args.block_domains = {} /\ ValidAbsoluteWithDomain)
  => Accepted

\* C7 amended: with cross-domain on and empty lists every valid absolute URL
\* with a domain that is not in the visited set is accepted, as its canonical
\* string.
C7_CrossDomainUnvisited ==
  (pc = "filtered" /\ args.cross_domain /\ args.allow_domains = {}
     /\ args.block_domains = {} /\ ValidAbsoluteWithDomain /\ Unvisited)
  => decision = UrlToString(UrlParse(link))

\* an unvisited absolute link of a foreign domain is accepted
C7_Witness ==
  /\ pc = "filtered"
  /\ args.cross_domain
  /\ args.allow_domains = {}
  /\ args.block_domains = {}
  /\ ValidAbsoluteWithDomain
  /\ Unvisited
  /\ LinkDomain # base_domain
  /\ Accepted

\* C8 as stated: an InvalidSelector error aborts the run.
C8_InvalidSelectorAborts ==
  outcome = "InvalidSelector" => pc = "aborted"

\* the failure kinds C9 names
PageFailures == {"Timeout", "NetworkError", "HttpStatus", "RateLimited", "AntiBotDetected"}

\* C9: a failed fetch adds no PageResult and no frontier entry, leaves results,
\* frontier and visited set as they are, and the run goes on to the delay and
\* from there back to the loop.
C9_FailureIsLocal ==
  [][/\ (pc = "fetching" /\ outcome' \in PageFailures)
          => (results' = results /\ queue' = queue /\ visited' = visited
              /\ pc' = "delay")
     /\ (pc = "delay" /\ outcome \in PageFailures)
          => (results' = results /\ queue' = queue /\ pc' = "loop")]_vars

\* a fetch failed while results and frontier entries had accumulated
C9_Witness ==
  /\ pc = "delay"
  /\ outcome \in PageFailures
  /\ results # <<>>
  /\ queue # <<>>

\* C10: a URL string is handed to the fetch at most once per run, and it is
\* in the visited set from the attempt on.
C10_NoRetry ==
  /\ \A i, j \in 1..Len(fetched) : i # j => fetched[i] # fetched[j]
  /\ \A i \in 1..Len(fetched) : fetched[i] \in visited

\* a URL whose fetch failed is pending in the frontier again
C10_Witness ==
  /\ pc = "loop"
  /\ \E i \in 1..Len(fetched) :
       /\ \A k \in 1..Len(results) : results[k].url # fetched[i]
       /\ \E k \in 1..Len(queue) : queue[k][1] = fetched[i]


\* C11: the depths of the frontier entries are non-decreasing from front to
\* back, no frontier entry is shallower than the entry being processed, and the
\* PageResults are ordered by non-decreasing depth.
C11_BreadthFirst ==
  /\ \A i, j \in 1..Len(queue) : i < j => queue[i][2] <= queue[j][2]
  /\ \A i \in 1..Len(queue) : cur[2] <= queue[i][2]
  /\ \A i, j \in 1..Len(results) : i < j => results[i].depth <= results[j].depth
  /\ \A i \in 1..Len(results) : \A k \in 1..Len(queue) : results[i].depth <= queue[k][2]

\* the frontier holds entries of two depths while results exist
C11_Witness ==
  /\ results # <<>>
  /\ \E i, j \in 1..Len(queue) : queue[i][2] < queue[j][2]

\* the run is over: Ok(results) or Err(InvalidUrl) was returned
Terminated == pc \in {"done", "aborted"}

\* C12: every crawl run terminates, with an empty frontier when it returns its
\* results.
C12_Terminates == <>(Terminated /\ queue = <<>>)

\* a run that followed links, had a fetch fail and reached the page cap has
\* returned
C12_Witness ==
  /\ pc = "done"
  /\ \E i \in 1..Len(results) : results[i].depth >= 1
  /\ Len(fetched) > Len(results)
  /\ Len(results) = args.max_pages

\* C13: a fetch attempt, successful or failed, is followed by the delay, the
\* delay by the loop head, and a new fetch attempt starts only at the loop head.
C13_DelayAfterEveryFetch ==
  [][/\ pc = "fetching" => (pc' = "delay" /\ fetched' = fetched)
     /\ pc = "delay" => (pc' = "loop" /\ fetched' = fetched)
     /\ fetched' # fetched => pc = "loop"]_vars

\* the delay after a failed fetch is over and the next entry is waiting
C13_Witness ==
  /\ pc = "loop"
  /\ queue # <<>>
  /\ fetched # <<>>
  /\ \A k \in 1..Len(results) : results[k].url # fetched[Len(fetched)]


\* the scenario of C14: seed https://example.com, defaults, max_depth = 1, and
\* a seed page with the two links /about and https://other.com/x
ScenarioSeed == Txt("https", "example.com", "")

ScenarioPage ==
  /\ args.start_url = ScenarioSeed
  /\ ~args.cross_domain
  /\ args.allow_domains = {}
  /\ args.block_domains = {}
  /\ args.max_depth = 1
  /\ pc = "delay"
  /\ outcome = "Ok"
  /\ cur = <<ScenarioSeed, 0>>
  /\ page \in {<<Txt("", "", "/about"), Txt("https", "other.com", "/x")>>,
               <<Txt("https", "other.com", "/x"), Txt("", "", "/about")>>}

\* C14: in the scenario the frontier after the depth-0 entry is exactly
\* (https://example.com/about, 1); the other.com link is not in it.
C14_Scenario ==
  ScenarioPage => queue = <<<<Txt("https", "example.com", "/about"), 1>>>>

\* the seed page of the scenario has been processed
C14_Witness ==
  ScenarioPage /\ Len(queue) = 1 /\ results # <<>>

\* the seed is not a well-formed URL, or has no domain
SeedInvalid == base_url = ParseErr \/ base_domain = NoDomain

\* C15: with a seed that is not a well-formed URL or has no domain the run
\* aborts with InvalidUrl; nothing is enqueued, fetched or produced.
C15_InvalidSeedAborts ==
  (pc \in {"start", "loop", "fetching", "delay", "done", "aborted"} /\ SeedInvalid)
  => /\ pc \in {"start", "aborted"}
     /\ pc = "aborted" => outcome = "InvalidUrl"
     /\ queue = <<>> /\ fetched = <<>> /\ results = <<>>

\* a well-formed seed without a domain was refused
C15_Witness ==
  /\ pc = "aborted"
  /\ base_url # ParseErr
  /\ base_domain = NoDomain
  /\ fetched = <<>>


\* ------------------------------------------ single functions on drawn inputs
\* the crawl state while a single function is exercised
NoCrawl ==
  /\ args = [start_url |-> Txt("https", "example.com", "/"), max_depth |-> 0,
             max_pages |-> 0, allow_domains |-> {}, block_domains |-> {},
             cross_domain |-> FALSE, selector_ok |-> TRUE]
  /\ queue = <<>>
  /\ visited = {}
  /\ results = <<>>
  /\ cur = NoEntry
  /\ outcome = "none"
  /\ fetched = <<>>
  /\ page = <<>>
  /\ link = None
  /\ decision = None

crawlVars == <<args, queue, visited, results, cur, outcome, fetched, page, link, decision>>

ClassifyInit ==
  /\ pc = "classify"
  /\ input \in 0..MaxU16
  /\ output = None
  /\ NoCrawl

\* one call of classify_http_status, as at line 908
ApplyClassify ==
  /\ pc = "classify"
  /\ output' = classify_http_status(input)
  /\ pc' = "classified"
  /\ UNCHANGED <<input, crawlVars>>

ClassifyNext == ApplyClassify

ClassifySpec == ClassifyInit /\ [][ClassifyNext]_vars

\* C16: classify succeeds iff the code is in 200..299; 429 and only 429 gives
\* RateLimited; every other code gives HttpStatus carrying the input code.
C16_Classify ==
  pc = "classified" =>
    /\ output.kind = "Ok" <=> (200 <= input /\ input <= 299)
    /\ output.kind = "RateLimited" <=> input = 429
    /\ (~(200 <= input /\ input <= 299) /\ input # 429)
         => (output.kind = "HttpStatus" /\ output.code = input)

\* a code without an arm of its own is classified as HttpStatus with its code
C16_Witness ==
  /\ pc = "classified"
  /\ input = 418
  /\ output.kind = "HttpStatus"
  /\ output.code = 418


\* ------------------------------------------------------ the anti-bot detector
\* A document's raw HTML is modelled by the set of these fragments that occur
\* in it; a title by one of TitleTexts or NoTitle.
Fragments ==
  {"cf-browser-verification", "Cloudflare", "challenge-platform",
   "Cloudflare Ray ID", "cf-ray", "recaptcha", "g-recaptcha", "hcaptcha",
   "h-captcha", "PerimeterX", "px-captcha", "datadome", "DataDome", "akamai",
   "bot", "challenge", "Just a moment", "Checking your browser"}

\* pattern p occurs inside fragment f
OccursIn(p, f) ==
  \/ p = f
  \/ <<p, f>> \in {<<"Cloudflare", "Cloudflare Ray ID">>,
                   <<"recaptcha", "g-recaptcha">>,
                   <<"challenge", "challenge-platform">>}

\* html.contains(p)
HtmlContains(html, p) == \E f \in html : OccursIn(p, f)

NoTitle == "<no title>"

TitleTexts == {"Home", "Access Denied", "Site Blocked", "403 Forbidden", "CAPTCHA"}

\* title_text.to_lowercase()
TitleLower(t) ==
  CASE t = "Home" -> "home"
    [] t = "Access Denied" -> "access denied"
    [] t = "Site Blocked" -> "site blocked"
    [] t = "403 Forbidden" -> "403 forbidden"
    [] t = "CAPTCHA" -> "captcha"
    [] OTHER -> t

\* title_lower.contains(k)
TitleContains(title_lower, k) ==
  \/ title_lower = k
  \/ <<k, title_lower>> \in {<<"blocked", "site blocked">>,
                             <<"forbidden", "403 forbidden">>}

\* line 302
CloudflareChallenge(html) ==
  HtmlContains(html, "cf-browser-verification")
    \/ (HtmlContains(html, "Cloudflare") /\ HtmlContains(html, "challenge-platform"))

\* line 307
CloudflareRay(html) ==
  HtmlContains(html, "Cloudflare Ray ID") \/ HtmlContains(html, "cf-ray")

\* line 312
Recaptcha(html) == HtmlContains(html, "recaptcha") \/ HtmlContains(html, "g-recaptcha")

\* line 317
Hcaptcha(html) == HtmlContains(html, "hcaptcha") \/ HtmlContains(html, "h-captcha")

\* line 322
PerimeterX(html) == HtmlContains(html, "PerimeterX") \/ HtmlContains(html, "px-captcha")

\* line 327
DataDome(html) == HtmlContains(html, "datadome") \/ HtmlContains(html, "DataDome")

\* line 332
Akamai(html) ==
  HtmlContains(html, "akamai")
    /\ (HtmlContains(html, "bot") \/ HtmlContains(html, "challenge"))

\* lines 337-342
TitleKeyword(title) ==
  /\ title # NoTitle
  /\ \E k \in {"access denied", "blocked", "forbidden", "captcha"} :
       TitleContains(TitleLower(title), k)

\* line 348
JustAMoment(html) ==
  HtmlContains(html, "Just a moment") \/ HtmlContains(html, "Checking your browser")

\* Some(reason): the rule that fired and, for the title rule, the title quoted
Reason(rule, title) == [rule |-> rule, title |-> title]

\* Option<String>::None of detect_anti_bot_features
NoReason == Reason("none", "")

\* mutant: the title check was moved in front of the other checks
detect_anti_bot_features_titleFirst(html, title) ==
  IF TitleKeyword(title) THEN Reason("Title", title)
  ELSE IF CloudflareChallenge(html) THEN Reason("CloudflareChallenge", "")
  ELSE IF CloudflareRay(html) THEN Reason("CloudflareRay", "")
  ELSE IF Recaptcha(html) THEN Reason("Recaptcha", "")
  ELSE IF Hcaptcha(html) THEN Reason("Hcaptcha", "")
  ELSE IF PerimeterX(html) THEN Reason("PerimeterX", "")
  ELSE IF DataDome(html) THEN Reason("DataDome", "")
  ELSE IF Akamai(html) THEN Reason("Akamai", "")
  ELSE IF JustAMoment(html) THEN Reason("JustAMoment", "")
  ELSE NoReason

detect_anti_bot_features(html, title) ==
  IF CloudflareChallenge(html) THEN Reason("CloudflareChallenge", "")
  ELSE IF CloudflareRay(html) THEN Reason("CloudflareRay", "")
  ELSE IF Recaptcha(html) THEN Reason("Recaptcha", "")
  ELSE IF Hcaptcha(html) THEN Reason("Hcaptcha", "")
  ELSE IF PerimeterX(html) THEN Reason("PerimeterX", "")
  ELSE IF DataDome(html) THEN Reason("DataDome", "")
  ELSE IF Akamai(html) THEN Reason("Akamai", "")
  ELSE IF TitleKeyword(title) THEN Reason("Title", title)
  ELSE IF JustAMoment(html) THEN Reason("JustAMoment", "")
  ELSE NoReason

AntiBotInit ==
  /\ pc = "detect"
  /\ input \in {[html |-> h, title |-> t] :
                  h \in {x \in SUBSET Fragments : Cardinality(x) <= MaxFragments},
                  t \in TitleTexts \cup {NoTitle}}
  /\ output = None
  /\ NoCrawl

\* one call of detect_anti_bot_features, as at line 921
ApplyDetect ==
  /\ pc = "detect"
  /\ output' = detect_anti_bot_features(input.html, input.title)
  /\ pc' = "detected"
  /\ UNCHANGED <<input, crawlVars>>

AntiBotNext == ApplyDetect

AntiBotSpec == AntiBotInit /\ [][AntiBotNext]_vars

\* the order of the rules as C17 gives it
ClaimedOrder ==
  <<"CloudflareChallenge", "CloudflareRay", "Recaptcha", "Hcaptcha", "PerimeterX",
    "DataDome", "Akamai", "Title", "JustAMoment">>

\* rule r matches the input of the call
Matches(r) ==
  CASE r = "CloudflareChallenge" -> CloudflareChallenge(input.html)
    [] r = "CloudflareRay" -> CloudflareRay(input.html)
    [] r = "Recaptcha" -> Recaptcha(input.html)
    [] r = "Hcaptcha" -> Hcaptcha(input.html)
    [] r = "PerimeterX" -> PerimeterX(input.html)
    [] r = "DataDome" -> DataDome(input.html)
    [] r = "Akamai" -> Akamai(input.html)
    [] r = "Title" -> TitleKeyword(input.title)
    [] r = "JustAMoment" -> JustAMoment(input.html)

\* C17: the detector returns the reason of the earliest rule, in the claimed
\* order, that matches; the Akamai rule needs both tokens; a document with
\* cf-browser-verification gets the Cloudflare-challenge reason; None is
\* returned only when no rule matches.
C17_FirstMatch ==
  pc = "detected" =>
    /\ \A i \in 1..Len(ClaimedOrder) :
         (Matches(ClaimedOrder[i]) /\ \A j \in 1..(i - 1) : ~Matches(ClaimedOrder[j]))
           => output.rule = ClaimedOrder[i]
    /\ output = NoReason <=> \A i \in 1..Len(ClaimedOrder) : ~Matches(ClaimedOrder[i])
    /\ "cf-browser-verification" \in input.html => output.rule = "CloudflareChallenge"
    /\ output.rule = "Akamai"
         => ("akamai" \in input.html /\ input.html \cap {"bot", "challenge", "challenge-platform"} # {})
    /\ output.rule = "Title" => output.title = input.title

\* the Akamai rule wins over a matching title and a matching last rule
C17_Witness ==
  /\ pc = "detected"
  /\ Matches("Akamai")
  /\ Matches("Title")
  /\ Matches("JustAMoment")
  /\ output.rule = "Akamai"


\* --------------------------------------------------------- the URL normaliser
\* the URLs of fetched pages, against which hrefs and srcs are resolved
PageUrls ==
  {UrlParse(t) : t \in {Txt("https", "example.com", ""),
                        Txt("https", "example.com", "/about"),
                        Txt("https", "other.com", "/x"),
                        Txt("https", "sub.example.com", "/"),
                        Txt("http", "10.0.0.1", "/")}}

\* href and src attribute values
Candidates ==
  Hrefs \cup {Txt("", "bad host", "/x"),          \* //bad host/x
              Txt("", "", ""),                    \* the empty attribute
              Txt("javascript", "", "void(0)")}   \* javascript:void(0)

NormalizeInit ==
  /\ pc = "normalize"
  /\ input \in {[base |-> b, candidate |-> c] : b \in PageUrls, c \in Candidates}
  /\ output = Pending
  /\ NoCrawl

\* one call of normalize_url, as at lines 363 and 385
ApplyNormalize ==
  /\ pc = "normalize"
  /\ output' = normalize_url(input.base, input.candidate)
  /\ pc' = "normalized"
  /\ UNCHANGED <<input, crawlVars>>

NormalizeNext == ApplyNormalize

NormalizeSpec == NormalizeInit /\ [][NormalizeNext]_vars

\* the text is an absolute URL with a scheme and a host
AbsoluteWithHost(t) ==
  UrlParse(t) # ParseErr /\ UrlParse(t).scheme # "" /\ UrlParse(t).host # ""

\* C18 as stated: whenever normalize succeeds its result is an absolute URL
\* with a scheme and a host.
C18_NormalizedIsAbsolute ==
  (pc = "normalized" /\ output # None) => AbsoluteWithHost(output)


\* ------------------------------------------------------ extraction from a page
\* A parsed document is the sequence of its elements in document order, each
\* [tag |-> element name, text |-> its collected text].
Elem(tag, text) == [tag |-> tag, text |-> text]

\* element texts: plain, padded with whitespace, whitespace only
Texts == {"A", " B ", "  "}

\* str::trim
Trim(text) ==
  CASE text = " B " -> "B"
    [] text = "  " -> ""
    [] OTHER -> text

\* document.select(&selector) for a type selector: the matches in document order
RECURSIVE Select(_, _)
Select(doc, tag) ==
  IF doc = <<>> THEN <<>>
  ELSE IF Head(doc).tag = tag THEN <<Head(doc)>> \o Select(Tail(doc), tag)
  ELSE Select(Tail(doc), tag)

\* the trimmed texts of the elements, the empty ones dropped
RECURSIVE TrimmedNonEmpty(_)
TrimmedNonEmpty(elems) ==
  IF elems = <<>> THEN <<>>
  ELSE IF Trim(Head(elems).text) = "" THEN TrimmedNonEmpty(Tail(elems))
  ELSE <<Trim(Head(elems).text)>> \o TrimmedNonEmpty(Tail(elems))

\* line 408: the tags in the order the loop visits them
HeadingTags == <<"h1", "h2", "h3", "h4", "h5", "h6">>

\* the elements whose tag is one of the heading tags, in document order
RECURSIVE SelectHeadings(_)
SelectHeadings(doc) ==
  IF doc = <<>> THEN <<>>
  ELSE IF \E k \in 1..Len(HeadingTags) : HeadingTags[k] = Head(doc).tag
    THEN <<Head(doc)>> \o SelectHeadings(Tail(doc))
  ELSE SelectHeadings(Tail(doc))

\* mutant: one pass over the document with the selector "h1, h2, h3, h4, h5, h6"
extract_headings_onePass(doc) == TrimmedNonEmpty(SelectHeadings(doc))

\* lines 407-416, from tag number k on
RECURSIVE HeadingsFrom(_, _)
HeadingsFrom(doc, k) ==
  IF k > Len(HeadingTags) THEN <<>>
  ELSE TrimmedNonEmpty(Select(doc, HeadingTags[k])) \o HeadingsFrom(doc, k + 1)

extract_headings(doc) == HeadingsFrom(doc, 1)

HeadingDocs ==
  SeqsUpTo({Elem(t, x) : t \in {"h1", "h2", "h6", "p"}, x \in Texts}, MaxElems)

HeadingsInit ==
  /\ pc = "headings"
  /\ input \in HeadingDocs
  /\ output = None
  /\ NoCrawl

\* one call of extract_headings, as at line 925
ApplyHeadings ==
  /\ pc = "headings"
  /\ output' = extract_headings(input)
  /\ pc' = "extracted"
  /\ UNCHANGED <<input, crawlVars>>

HeadingsNext == ApplyHeadings

HeadingsSpec == HeadingsInit /\ [][HeadingsNext]_vars

\* element i of the document is a heading with non-blank text
IsHeading(doc, i) ==
  /\ \E k \in 1..Len(HeadingTags) : HeadingTags[k] = doc[i].tag
  /\ Trim(doc[i].text) # ""

\* the level 1..6 of a heading tag
Level(tag) == CHOOSE k \in 1..Len(HeadingTags) : HeadingTags[k] = tag

\* the number of headings of the document before element i in document order
DocRank(doc, i) == Cardinality({j \in 1..(i - 1) : IsHeading(doc, j)})

\* the number of headings that are of a lower level than element i, or of its
\* level and before it
LevelRank(doc, i) ==
  Cardinality({j \in 1..Len(doc) :
                 /\ IsHeading(doc, j)
                 /\ \/ Level(doc[j].tag) < Level(doc[i].tag)
                    \/ (Level(doc[j].tag) = Level(doc[i].tag) /\ j < i)})

NumHeadings(doc) == Cardinality({j \in 1..Len(doc) : IsHeading(doc, j)})

\* C19 as stated: the headings list holds the trimmed non-blank texts of the
\* h1..h6 elements in document order.
C19_DocumentOrder ==
  pc = "extracted" =>
    /\ Len(output) = NumHeadings(input)
    /\ \A i \in 1..Len(input) :
         IsHeading(input, i) => output[DocRank(input, i) + 1] = Trim(input[i].text)

\* C19 amended: the headings list holds the trimmed non-blank texts of the
\* h1..h6 elements grouped by level, h1 first, and in document order within
\* a level.
C19_LevelThenDocumentOrder ==
  pc = "extracted" =>
    /\ Len(output) = NumHeadings(input)
    /\ \A i \in 1..Len(input) :
         IsHeading(input, i) => output[LevelRank(input, i) + 1] = Trim(input[i].text)

\* an h2 that precedes an h1 in the document follows it in the list
C19_Witness ==
  /\ pc = "extracted"
  /\ \E i, j \in 1..Len(input) :
       /\ i < j
       /\ input[i].tag = "h2" /\ input[j].tag = "h1"
       /\ Trim(input[i].text) = "A" /\ Trim(input[j].text) = "B"
       /\ output = <<"B", "A">>

\* ---------------------------------------------------------- custom selectors
\* selector strings: three type selectors and one that does not parse
SelectorStrings == {"h1", "p", "span", "div["}

\* Selector::parse(selector_str).is_ok()
SelectorValid(selector_str) == selector_str # "div["

\* mutant: a selector without matches gets no entry
PushResult_nonEmpty(res, selector_str, matches) ==
  IF matches = <<>> THEN res ELSE Append(res, [selector |-> selector_str, matches |-> matches])

\* lines 589-592
PushResult(res, selector_str, matches) ==
  Append(res, [selector |-> selector_str, matches |-> matches])

\* lines 574-603, with the results collected so far
RECURSIVE SelectorsFrom(_, _, _)
SelectorsFrom(doc, selectors, res) ==
  IF selectors = <<>> THEN [ok |-> TRUE, results |-> res]
  ELSE IF SelectorValid(Head(selectors))
    THEN SelectorsFrom(doc, Tail(selectors),
                       PushResult(res, Head(selectors),
                                  TrimmedNonEmpty(Select(doc, Head(selectors)))))
  ELSE [ok |-> FALSE, results |-> <<>>]

process_custom_selectors(doc, selectors) == SelectorsFrom(doc, selectors, <<>>)

SelectorDocs == SeqsUpTo({Elem(t, x) : t \in {"h1", "p"}, x \in Texts}, MaxElems)

SelectorsInit ==
  /\ pc = "selectors"
  /\ input \in {[document |-> d, selectors |-> q] :
                  d \in SelectorDocs, q \in SeqsUpTo(SelectorStrings, MaxSelectors)}
  /\ output = None
  /\ NoCrawl

\* one call of process_custom_selectors, as at line 940
ApplySelectors ==
  /\ pc = "selectors"
  /\ output' = process_custom_selectors(input.document, input.selectors)
  /\ pc' = "selected"
  /\ UNCHANGED <<input, crawlVars>>

SelectorsNext == ApplySelectors

SelectorsSpec == SelectorsInit /\ [][SelectorsNext]_vars

\* the positions of the document whose element matches the selector and has
\* non-blank text
MatchPositions(doc, selector_str) ==
  {j \in 1..Len(doc) : doc[j].tag = selector_str /\ Trim(doc[j].text) # ""}

\* C20: for valid selectors the result has one entry per selector, in request
\* order, with its selector string and the trimmed non-blank texts of its
\* matches in document order; a selector without matches has an empty list.
C20_OnePerSelector ==
  (pc = "selected" /\ \A i \in 1..Len(input.selectors) : SelectorValid(input.selectors[i]))
  => /\ output.ok
     /\ Len(output.results) = Len(input.selectors)
     /\ \A i \in 1..Len(input.selectors) :
          LET pos == MatchPositions(input.document, input.selectors[i])
              got == output.results[i]
          IN /\ got.selector = input.selectors[i]
             /\ Len(got.matches) = Cardinality(pos)
             /\ \A j \in pos :
                  got.matches[Cardinality({k \in pos : k < j}) + 1]
                    = Trim(input.document[j].text)

\* two selectors, the first without a match, the second with one
C20_Witness ==
  /\ pc = "selected"
  /\ input.selectors = <<"span", "p">>
  /\ MatchPositions(input.document, "p") # {}
  /\ output.ok
  /\ output.results[1] = [selector |-> "span", matches |-> <<>>]
  /\ output.results[2].matches # <<>>


\* ---------------------------------------------------------------- code blocks
\* A document tree is the sequence of its elements in document order; each
\* names its parent by position, 0 for the document root.
Node(tag, text, class, parent) == [tag |-> tag, text |-> text, class |-> class, parent |-> parent]

\* class attributes of code elements: none, a language class, another class
Classes == {"", "language-rust", "highlight"}

NodeLabels ==
  {[tag |-> t, text |-> x, class |-> ""] : t \in {"pre", "div"}, x \in {"A", "  "}}
    \cup {[tag |-> "code", text |-> x, class |-> c] : x \in {"A", "  "}, c \in Classes}

\* the chain of parents of element i
RECURSIVE Ancestors(_, _)
Ancestors(doc, i) ==
  IF doc[i].parent = 0 THEN {} ELSE {doc[i].parent} \cup Ancestors(doc, doc[i].parent)

\* where the element after position k can be attached: to the root, to
\* element k or to one of its ancestors
OpenElements(doc, k) == IF k = 0 THEN {0} ELSE {0, k} \cup Ancestors(doc, k)

\* the parent positions of the trees of n elements in document (pre-)order
ParentChoices(n) ==
  {ps \in [1..n -> 0..MaxElems] :
     LET shape == [i \in 1..n |-> [parent |-> ps[i]]]
     IN \A i \in 1..n : ps[i] < i /\ ps[i] \in OpenElements(shape, i - 1)}

TreesOfLen(n) ==
  {[i \in 1..n |-> Node(ls[i].tag, ls[i].text, ls[i].class, ps[i])] :
     ls \in [1..n -> NodeLabels], ps \in ParentChoices(n)}

\* element.text().collect(): the text pieces of the element and of everything
\* below it, in document order, from position i on
RECURSIVE TextFrom(_, _, _)
TextFrom(doc, root, i) ==
  IF i > Len(doc) THEN <<>>
  ELSE IF i = root \/ root \in Ancestors(doc, i)
    THEN <<doc[i].text>> \o TextFrom(doc, root, i + 1)
  ELSE TextFrom(doc, root, i + 1)

ElementText(doc, i) == TextFrom(doc, i, i)

\* content.trim().is_empty()
IsBlank(content) == \A k \in 1..Len(content) : Trim(content[k]) = ""

NoLanguage == "None"

\* lines 495-509 and 545-557: the class that starts with language- or lang-,
\* stripped of the prefix
LanguageOf(class) ==
  CASE class = "language-rust" -> "rust"
    [] OTHER -> NoLanguage

CodeBlock(content, language) == [content |-> content, language |-> language]

\* pre_html.select(&code_selector): the code elements below the pre
CodeElementsIn(doc, pre) ==
  {j \in 1..Len(doc) : doc[j].tag = "code" /\ pre \in Ancestors(doc, j)}

\* lines 493-513: the blocks of the code elements of one pre, from position j
RECURSIVE CodeBlocksOfPre(_, _, _)
CodeBlocksOfPre(doc, pre, j) ==
  IF j > Len(doc) THEN <<>>
  ELSE IF j \in CodeElementsIn(doc, pre) /\ ~IsBlank(ElementText(doc, j))
    THEN <<CodeBlock(ElementText(doc, j), LanguageOf(doc[j].class))>>
           \o CodeBlocksOfPre(doc, pre, j + 1)
  ELSE CodeBlocksOfPre(doc, pre, j + 1)

\* lines 487-524: the first loop, over every pre element, from position i
RECURSIVE PreLoop(_, _)
PreLoop(doc, i) ==
  IF i > Len(doc) THEN <<>>
  ELSE IF doc[i].tag # "pre" THEN PreLoop(doc, i + 1)
  ELSE IF CodeElementsIn(doc, i) # {}
    THEN CodeBlocksOfPre(doc, i, i) \o PreLoop(doc, i + 1)
  ELSE IF ~IsBlank(ElementText(doc, i))
    THEN <<CodeBlock(ElementText(doc, i), NoLanguage)>> \o PreLoop(doc, i + 1)
  ELSE PreLoop(doc, i + 1)

\* lines 529-539
is_inside_pre(doc, i) == \E a \in Ancestors(doc, i) : doc[a].tag = "pre"

\* lines 527-561: the second loop, over every code element, from position i
RECURSIVE CodeLoop(_, _)
CodeLoop(doc, i) ==
  IF i > Len(doc) THEN <<>>
  ELSE IF doc[i].tag = "code" /\ ~is_inside_pre(doc, i) /\ ~IsBlank(ElementText(doc, i))
    THEN <<CodeBlock(ElementText(doc, i), LanguageOf(doc[i].class))>> \o CodeLoop(doc, i + 1)
  ELSE CodeLoop(doc, i + 1)

extract_code_blocks(doc) == PreLoop(doc, 1) \o CodeLoop(doc, 1)

CodeBlocksInit ==
  /\ pc = "code-blocks"
  /\ \E n \in 0..MaxElems : input \in TreesOfLen(n)
  /\ output = None
  /\ NoCrawl

\* one call of extract_code_blocks, as at line 930
ApplyCodeBlocks ==
  /\ pc = "code-blocks"
  /\ output' = extract_code_blocks(input)
  /\ pc' = "code-blocks-done"
  /\ UNCHANGED <<input, crawlVars>>

CodeBlocksNext == ApplyCodeBlocks

CodeBlocksSpec == CodeBlocksInit /\ [][CodeBlocksNext]_vars

\* the code elements with non-blank text
NonBlankCodes(doc) ==
  {i \in 1..Len(doc) : doc[i].tag = "code" /\ ~IsBlank(ElementText(doc, i))}

\* the pre elements with non-blank text and no code element below them
NonBlankPlainPres(doc) ==
  {i \in 1..Len(doc) :
     doc[i].tag = "pre" /\ CodeElementsIn(doc, i) = {} /\ ~IsBlank(ElementText(doc, i))}

Cell(kind, text, inner) == [kind |-> kind, text |-> text, inner |-> inner]

\* tables that occur nested in a cell: one data row, one header row, no row
InnerTables ==
  { <<<<Cell("td", " B ", <<>>)>>>>, <<<<Cell("th", "A", <<>>)>>>>, <<>> }

\* the tr elements the tables are made of
RowShapes ==
  { <<>>,
    <<Cell("td", "A", <<>>)>>,
    <<Cell("td", "  ", <<>>)>>,
    <<Cell("th", " B ", <<>>)>>,
    <<Cell("th", "  ", <<>>)>>,
    <<Cell("td", "A", <<>>), Cell("td", " B ", <<>>)>>,
    <<Cell("th", " B ", <<>>), Cell("td", "A", <<>>)>> }
    \cup {<<Cell("td", "", <<t>>)>> : t \in InnerTables}

RECURSIVE DeepCells(_)
RECURSIVE RowDeepCells(_)
\* the cells below a table in document order, those of nested tables included
DeepCells(table) ==
  IF table = <<>> THEN <<>> ELSE RowDeepCells(Head(table)) \o DeepCells(Tail(table))

\* the cells below a tr in document order, those of nested tables included
RowDeepCells(cells) ==
  IF cells = <<>> THEN <<>>
  ELSE <<Head(cells)>>
         \o (IF Head(cells).inner = <<>> THEN <<>> ELSE DeepCells(Head(cells).inner[1]))
         \o RowDeepCells(Tail(cells))

RECURSIVE DeepRows(_)
RECURSIVE InnerRows(_)
\* table_html.select(&tr_selector): the tr elements below a table
DeepRows(table) ==
  IF table = <<>> THEN <<>>
  ELSE <<Head(table)>> \o InnerRows(Head(table)) \o DeepRows(Tail(table))

\* the tr elements of the tables nested in the cells
InnerRows(cells) ==
  IF cells = <<>> THEN <<>>
  ELSE (IF Head(cells).inner = <<>> THEN <<>> ELSE DeepRows(Head(cells).inner[1]))
         \o InnerRows(Tail(cells))

\* the tables nested in the cells, in document order
RECURSIVE TablesIn(_)
TablesIn(cells) ==
  IF cells = <<>> THEN <<>>
  ELSE (IF Head(cells).inner = <<>> THEN <<>> ELSE <<Head(cells).inner[1]>>)
         \o TablesIn(Tail(cells))

\* document.select(&table_selector): the table and the tables nested in it
TableElements(table) == <<table>> \o TablesIn(DeepCells(table))

\* text().collect() of a cell: its text pieces joined; at most one of the
\* pieces of a cell of RowShapes is non-empty
CellText(cell) ==
  LET pieces == RowDeepCells(<<cell>>)
  IN IF \E k \in 1..Len(pieces) : pieces[k].text # ""
       THEN pieces[CHOOSE k \in 1..Len(pieces) : pieces[k].text # ""].text
       ELSE ""

\* lines 445-449: the trimmed non-blank texts of the th elements
RECURSIVE Headers(_)
Headers(cells) ==
  IF cells = <<>> THEN <<>>
  ELSE IF Head(cells).kind = "th" /\ Trim(CellText(Head(cells))) # ""
    THEN <<Trim(CellText(Head(cells)))>> \o Headers(Tail(cells))
  ELSE Headers(Tail(cells))

\* mutant: blank cells are dropped like blank headers
RECURSIVE RowCells_nonBlank(_)
RowCells_nonBlank(cells) ==
  IF cells = <<>> THEN <<>>
  ELSE IF Head(cells).kind = "td" /\ Trim(CellText(Head(cells))) # ""
    THEN <<Trim(CellText(Head(cells)))>> \o RowCells_nonBlank(Tail(cells))
  ELSE RowCells_nonBlank(Tail(cells))

\* lines 455-458: the trimmed texts of the td elements below a tr
RECURSIVE RowCells(_)
RowCells(cells) ==
  IF cells = <<>> THEN <<>>
  ELSE IF Head(cells).kind = "td"
    THEN <<Trim(CellText(Head(cells)))>> \o RowCells(Tail(cells))
  ELSE RowCells(Tail(cells))

\* lines 452-466: the rows of the tr elements that have a td
RECURSIVE Rows(_)
Rows(trs) ==
  IF trs = <<>> THEN <<>>
  ELSE IF RowCells(RowDeepCells(Head(trs))) = <<>> THEN Rows(Tail(trs))
  ELSE <<RowCells(RowDeepCells(Head(trs)))>> \o Rows(Tail(trs))

Table(headers, rows) == [headers |-> headers, rows |-> rows]

\* lines 434-474, over the table elements
RECURSIVE TablesFrom(_)
TablesFrom(tables) ==
  IF tables = <<>> THEN <<>>
  ELSE LET headers == Headers(DeepCells(Head(tables)))
           rows == Rows(DeepRows(Head(tables)))
       IN IF headers = <<>> /\ rows = <<>> THEN TablesFrom(Tail(tables))
          ELSE <<Table(headers, rows)>> \o TablesFrom(Tail(tables))

\* a document with one top-level table
extract_tables(table) == TablesFrom(TableElements(table))

TablesInit ==
  /\ pc = "tables"
  /\ input \in SeqsUpTo(RowShapes, MaxRows)
  /\ output = None
  /\ NoCrawl

\* one call of extract_tables, as at line 929
ApplyTables ==
  /\ pc = "tables"
  /\ output' = extract_tables(input)
  /\ pc' = "tables-done"
  /\ UNCHANGED <<input, crawlVars>>

TablesNext == ApplyTables

TablesSpec == TablesInit /\ [][TablesNext]_vars

\* the number of tr elements below the table that have a td below them
DataRowCount(table) ==
  LET trs == DeepRows(table)
  IN Cardinality({k \in 1..Len(trs) :
                    \E c \in 1..Len(RowDeepCells(trs[k])) : RowDeepCells(trs[k])[c].kind = "td"})

\* the number of th elements below the table, and of those with non-blank text
ThCount(table) ==
  Cardinality({c \in 1..Len(DeepCells(table)) : DeepCells(table)[c].kind = "th"})

NonBlankThCount(table) ==
  Cardinality({c \in 1..Len(DeepCells(table)) :
                 /\ DeepCells(table)[c].kind = "th"
                 /\ Trim(CellText(DeepCells(table)[c])) # ""})

\* the table has neither a non-blank header nor a row with a td
Dropped(table) == NonBlankThCount(table) = 0 /\ DataRowCount(table) = 0

\* C22: the result holds the tables that are not dropped, in document order;
\* a table is dropped when it has no non-blank header and no tr with a td;
\* a table without th has no headers and as many rows as it has tr elements
\* with at least one td (tr elements of nested tables included).
C22_Tables ==
  pc = "tables-done" =>
    LET tables == TableElements(input)
        kept == {k \in 1..Len(tables) : ~Dropped(tables[k])}
    IN /\ Len(output) = Cardinality(kept)
       /\ \A k \in kept :
            LET got == output[Cardinality({j \in kept : j <= k})]
            IN /\ Len(got.rows) = DataRowCount(tables[k])
               /\ Len(got.headers) = NonBlankThCount(tables[k])
               /\ ThCount(tables[k]) = 0 => got.headers = <<>>

\* a table of two td-only rows, one of them all blank, next to a dropped one
C22_Witness ==
  /\ pc = "tables-done"
  /\ input = << <<Cell("td", "  ", <<>>)>>, <<Cell("td", "", << <<>> >>)>> >>
  /\ output = <<Table(<<>>, << <<"">>, <<"">> >>)>>


\* ------------------------------------------------ regular (non-crawl) mode
\* Option<usize>::None, the depth scrape_multiple passes
NoDepth == "none"

\* mutant: the newest result is put first
PushData_front(res, data) == <<data>> \o res

\* line 764: results.push(data)
PushData(res, data) == Append(res, data)

\* line 774: whether the loop sleeps at the end of the iteration
MustWait(res, a) == Len(res) < Len(a.urls)

MultiInit ==
  /\ pc = "start"
  /\ args \in {[urls |-> us, crawl |-> FALSE, selector_ok |-> so] :
                 us \in SeqsUpTo(Seeds, MaxUrls), so \in BOOLEAN}
  /\ queue = <<>>
  /\ visited = {}
  /\ results = <<>>
  /\ cur = NoEntry
  /\ outcome = "none"
  /\ fetched = <<>>
  /\ page = <<>>
  /\ link = None
  /\ decision = None
  /\ input = None
  /\ output = None

\* main lines 713-745: the checks before scrape_multiple is called
MultiStart ==
  /\ pc = "start"
  /\ IF args.urls = <<>>
       THEN pc' = "aborted" /\ outcome' = "NoUrls"
       ELSE IF \E i \in 1..Len(args.urls) : UrlParse(args.urls[i]) = ParseErr
         THEN pc' = "aborted" /\ outcome' = "InvalidUrl"
         ELSE pc' = "multi-loop" /\ outcome' = outcome
  /\ UNCHANGED <<args, queue, visited, results, cur, fetched, page, link, decision, input, output>>

\* lines 759-762: the for loop takes the next URL; cur[2] counts the URLs taken
MultiTake ==
  /\ pc = "multi-loop"
  /\ cur[2] < Len(args.urls)
  /\ cur' = <<args.urls[cur[2] + 1], cur[2] + 1>>
  /\ fetched' = Append(fetched, args.urls[cur[2] + 1])
  /\ outcome' = "none"
  /\ page' = <<>>
  /\ pc' = "multi-fetching"
  /\ UNCHANGED <<args, queue, visited, results, link, decision, input, output>>

\* lines 762-764: scrape_website returned Ok(data)
MultiFetchOk ==
  /\ pc = "multi-fetching"
  /\ \E resp \in Responses :
       LET r == scrape_website(cur[1], args, NoDepth, resp)
           res == PushData(results, [url |-> r.data.url,
                                     status_code |-> r.data.status_code,
                                     depth |-> r.data.depth])
       IN /\ r.ok
          /\ results' = res
          /\ outcome' = "Ok"
          /\ page' = resp.hrefs
          /\ pc' = IF MustWait(res, args) THEN "multi-delay" ELSE "multi-loop"
  /\ UNCHANGED <<args, queue, visited, cur, fetched, link, decision, input, output>>

\* lines 765-770: scrape_website returned Err(e), which is logged and printed
MultiFetchErr ==
  /\ pc = "multi-fetching"
  /\ \E resp \in Responses :
       LET r == scrape_website(cur[1], args, NoDepth, resp)
       IN /\ ~r.ok
          /\ outcome' = r.err
  /\ pc' = IF MustWait(results, args) THEN "multi-delay" ELSE "multi-loop"
  /\ UNCHANGED <<args, queue, visited, results, cur, fetched, page, link, decision, input, output>>

\* lines 774-777: the rate-limiting sleep
MultiDelay ==
  /\ pc = "multi-delay"
  /\ pc' = "multi-loop"
  /\ UNCHANGED <<args, queue, visited, results, cur, outcome, fetched, page, link, decision, input, output>>

\* line 779: the URLs are used up, Ok(results) is returned
MultiFinish ==
  /\ pc = "multi-loop"
  /\ cur[2] = Len(args.urls)
  /\ pc' = "done"
  /\ UNCHANGED <<args, queue, visited, results, cur, outcome, fetched, page, link, decision, input, output>>

MultiNext ==
  MultiStart \/ MultiTake \/ MultiFetchOk \/ MultiFetchErr \/ MultiDelay \/ MultiFinish

MultiSpec == MultiInit /\ [][MultiNext]_vars

\* the fetches so far are the first n given URLs, in the given order
FetchedIsPrefix ==
  /\ Len(fetched) <= Len(args.urls)
  /\ \A i \in 1..Len(fetched) : fetched[i] = args.urls[i]

\* the results are pages of the fetches so far, in the order of the fetches
ResultsInFetchOrder ==
  \E f \in [1..Len(results) -> 1..Len(fetched)] :
    /\ \A k \in 1..Len(results) : results[k].url = fetched[f[k]]
    /\ \A j, k \in 1..Len(results) : j < k => f[j] < f[k]

\* C23: in regular mode the fetches are the given URLs, each entry once and in
\* the given order, and nothing else; a successful fetch adds its page at the
\* end of the results, a failed one adds nothing; when scrape_multiple
\* returns, every given URL has been fetched.
C23_FetchesAreTheGivenUrls ==
  /\ FetchedIsPrefix
  /\ ResultsInFetchOrder
  /\ queue = <<>>
  /\ (pc \in {"multi-delay", "multi-loop"} /\ outcome = "Ok")
       => results[Len(results)].url = cur[1]
  /\ pc = "done" => fetched = args.urls

\* two different URLs, the first failed, the second succeeded on a page that
\* has links
C23_Witness ==
  /\ pc = "done"
  /\ Len(args.urls) = MaxUrls
  /\ args.urls[1] # args.urls[2]
  /\ fetched = args.urls
  /\ Len(results) = 1
  /\ results[1].url = args.urls[2]
  /\ page # <<>>


\* ------------------------------------------------- the crawl run as a whole
\* Url::domain() of a URL string of the frontier
DomainOf(url) == UrlDomain(UrlParse(url))

\* C24: once the number of results has reached max_pages no step starts a
\* fetch or adds to the visited set, and at the loop head the front entry of
\* the frontier is popped and skipped.
C24_CapCheckedBeforeFetch ==
  [][Len(results) >= args.max_pages
       => /\ fetched' = fetched
          /\ visited' = visited
          /\ pc' # "fetching"
          /\ (pc = "loop" /\ queue # <<>>) => (queue' = Tail(queue) /\ pc' = "loop")]_vars

\* the cap is reached and the front entry is one that would be fetched were
\* it not for the cap
C24_Witness ==
  /\ pc = "loop"
  /\ args.max_pages > 0
  /\ Len(results) >= args.max_pages
  /\ queue # <<>>
  /\ Head(queue)[1] \notin visited
  /\ Head(queue)[2] <= args.max_depth

\* C25: no URL that is fetched after the seed has a domain of the block list.
C25_BlockedNeverFetched ==
  \A i \in 1..Len(fetched) :
    i > 1 => Lower(DomainOf(fetched[i])) \notin args.block_domains

\* the seed's own domain is blocked, the seed was fetched, and so was a link
\* of its page
C25_Witness ==
  /\ DomainOf(args.start_url) \in args.block_domains
  /\ Len(fetched) >= 2

\* C26: with an empty allow list and without cross-domain mode every fetched
\* URL has the seed's domain.
C26_DefaultStaysOnSeedDomain ==
  (args.allow_domains = {} /\ ~args.cross_domain)
    => \A i \in 1..Len(fetched) : DomainOf(fetched[i]) = base_domain

\* default mode: a page below the depth limit with a link to another domain
\* has been fetched after the seed
C26_Witness ==
  /\ args.allow_domains = {} /\ ~args.cross_domain
  /\ pc = "delay" /\ outcome = "Ok"
  /\ Len(fetched) >= 2
  /\ MayFollowLinks(cur[2], args)
  /\ \E k \in 1..Len(page) : page[k] = Txt("https", "other.com", "/x")

\* the URL string as Url::parse and to_string give it back
Canonical(url) == UrlToString(UrlParse(url))

\* C27: at most one fetch of a crawl run is of the seed's canonical URL.
C27_SeedFetchedOnce ==
  Cardinality({i \in 1..Len(fetched) : Canonical(fetched[i]) = Canonical(args.start_url)}) <= 1

\* the attempts that have ended without a PageResult
FailedFetches ==
  {i \in 1..Len(fetched) :
     /\ \A k \in 1..Len(results) : results[k].url # fetched[i]
     /\ ~(pc = "fetching" /\ i = Len(fetched))}

\* C28: the number of fetch attempts is at most max_pages plus the number of
\* failed fetches, and every attempt that has ended and did not fail has
\* exactly one PageResult.
C28_CapCountsSuccesses ==
  /\ Len(fetched) <= args.max_pages + Cardinality(FailedFetches)
  /\ Len(results) + Cardinality(FailedFetches) + (IF pc = "fetching" THEN 1 ELSE 0)
       = Len(fetched)

\* more attempts than max_pages, the cap reached
C28_Witness ==
  /\ args.max_pages > 0
  /\ Len(results) = args.max_pages
  /\ Len(fetched) > args.max_pages
  /\ Cardinality(FailedFetches) > 0

\* the URLs for which a fetch has been attempted
Attempted == {fetched[i] : i \in 1..Len(fetched)}

\* C29: the visited set is the set of URLs for which a fetch has been
\* attempted; it changes only at the loop head, by the URL of the popped
\* entry, whose fetch starts in the same step; it never loses a member.
C29_VisitedIsAttempted ==
  /\ [](visited = Attempted)
  /\ [][/\ visited \subseteq visited'
        /\ visited' # visited
             => /\ pc = "loop" /\ queue # <<>>
                /\ visited' = visited \cup {Head(queue)[1]}
                /\ fetched' = Append(fetched, Head(queue)[1])
                /\ pc' = "fetching"]_vars

\* two URLs are visited while an accepted link waits in the frontier unvisited
C29_Witness ==
  /\ pc = "loop"
  /\ Cardinality(visited) >= 2
  /\ \E k \in 1..Len(queue) : queue[k][1] \notin visited


\* ------------------------------------------------- one page fetch on its own
\* status codes of the classes 2xx, 3xx, 4xx (with 429) and 5xx
ScrapeStatuses == {200, 204, 301, 403, 404, 429, 503}

\* what the HTTP collaborator can answer: no response, a response whose body
\* arrives, a response whose body cannot be read
ScrapeResponses ==
  {[transport |-> "timeout", status |-> 0, antibot |-> FALSE, hrefs |-> <<>>]}
  \cup {[transport |-> t, status |-> st, antibot |-> ab, hrefs |-> h] :
          t \in {"ok", "body"}, st \in ScrapeStatuses, ab \in BOOLEAN,
          h \in {<<>>, <<Txt("", "", "/about")>>}}

ScrapeInit ==
  /\ pc = "scrape"
  /\ input \in {[url |-> Txt("https", "example.com", "/"), resp |-> r, selector_ok |-> so] :
                  r \in ScrapeResponses, so \in BOOLEAN}
  /\ output = None
  /\ NoCrawl

\* one call of scrape_website, as at lines 762 and 836
ApplyScrape ==
  /\ pc = "scrape"
  /\ output' = scrape_website(input.url, [selector_ok |-> input.selector_ok], NoDepth, input.resp)
  /\ pc' = "scraped"
  /\ UNCHANGED <<input, crawlVars>>

ScrapeNext == ApplyScrape

ScrapeSpec == ScrapeInit /\ [][ScrapeNext]_vars

\* line 256: the arm 200..=299
IsSuccess(status_code) == status_code >= 200 /\ status_code < 300

\* C30: a response with a status outside 2xx fails with the status
\* classifier's error, RateLimited for 429 and HttpStatus otherwise, whether
\* or not its body can be read or has anti-bot markers; AntiBotDetected is
\* reported only for a 2xx response whose body was read.
C30_StatusBeforeBodyAndAntiBot ==
  pc = "scraped" =>
    /\ (input.resp.transport # "timeout" /\ ~IsSuccess(input.resp.status))
         => /\ ~output.ok
            /\ output.err = IF input.resp.status = 429 THEN "RateLimited" ELSE "HttpStatus"
    /\ (~output.ok /\ output.err = "AntiBotDetected")
         => /\ IsSuccess(input.resp.status)
            /\ input.resp.transport = "ok"
            /\ input.resp.antibot

\* a 429 response whose body has anti-bot markers is reported as RateLimited
C30_Witness ==
  /\ pc = "scraped"
  /\ input.resp.status = 429
  /\ input.resp.transport = "ok"
  /\ input.resp.antibot
  /\ ~output.ok
  /\ output.err = "RateLimited"

====
